---- MODULE Spec2Model ----
(***************************************************************************)
(* State-machine model of src/CoT-Decoding-pipe.py (class Pipeline).       *)
(*                                                                         *)
(* One invocation of Pipeline.pipe is broken at its blocking outbound      *)
(* calls (requests.post): every send and every return of a call is a step. *)
(* Text is a sequence of tokens.  The host may assign self.valves at any   *)
(* moment, also while pipe is blocked in a call.                           *)
(* The endpoint is the environment: each call's outcome is chosen          *)
(* nondeterministically among a transport failure raised by requests.post, *)
(* a non-200 status, and a 200 status with one of several bodies.          *)
(***************************************************************************)
EXTENDS Integers, Sequences, FiniteSets

VARIABLES
    valves,                 \* self.valves (model, k, debug)
    pc,                     \* position of the pipe invocation
    model_id,               \* pipe's model_id argument
    messages,               \* pipe's messages argument (the caller's list)
    conversation_history,   \* messages.copy() of line 63
    gen_model,              \* get_top_k_responses' argument model (line 76)
    k,                      \* get_top_k_responses' argument k (line 78)
    i,                      \* number of finished iterations of the loop of line 124
    responses,              \* get_top_k_responses' accumulator
    requests,               \* every outbound request of the invocation, in order
    inflight,               \* the outbound requests not yet returned
    replies,                \* what every outbound call did (Observed), in order
    best_response,          \* select_best_response_with_model's first result
    inner_monologue,        \* select_best_response_with_model's second result
    result                  \* what pipe gave back to its caller

vars == <<valves, pc, model_id, messages, conversation_history, gen_model, k, i, responses,
          requests, inflight, replies, best_response, inner_monologue, result>>

(* ------------------------------ bounds --------------------------------- *)

MaxLen == 3     \* longest input conversation
MaxK == 2       \* largest valves.k

(* ------------------------------- text ---------------------------------- *)

Digits == <<"0", "1", "2", "3", "4", "5", "6", "7", "8", "9">>

RECURSIVE DecStr(_)
\* str(n) of a non-negative integer, as its decimal digits
DecStr(n) ==
    IF n < 10 THEN <<Digits[n + 1]>>
    ELSE DecStr(n \div 10) \o <<Digits[(n % 10) + 1]>>

\* a Python str argument interpolated into an f-string
Str(s) == IF s = "" THEN <<>> ELSE <<s>>

\* every character that str.strip() removes (the 29 characters c with
\* c.isspace()).  A character outside ASCII is the token named after its code
\* point.
Whitespace ==
    {"\t", "\n", "", "\f", "\r",                           \* U+0009 .. U+000D
     "", "", "", "", " ",                         \* U+001C .. U+001F, U+0020
     "U+0085", "U+00A0", "U+1680",
     "U+2000", "U+2001", "U+2002", "U+2003", "U+2004", "U+2005",
     "U+2006", "U+2007", "U+2008", "U+2009", "U+200A",
     "U+2028", "U+2029", "U+202F", "U+205F", "U+3000"}

IsSpace(t) == t \in Whitespace

RECURSIVE LStrip(_)
LStrip(s) ==
    IF s # <<>> /\ IsSpace(Head(s)) THEN LStrip(Tail(s)) ELSE s

RECURSIVE RStrip(_)
RStrip(s) ==
    IF s # <<>> /\ IsSpace(s[Len(s)]) THEN RStrip(SubSeq(s, 1, Len(s) - 1)) ELSE s

\* str.strip()
Strip(s) == RStrip(LStrip(s))

(* --------------------------- Optional values --------------------------- *)

None == [isNone |-> TRUE, val |-> <<>>]
Some(v) == [isNone |-> FALSE, val |-> v]

\* truthiness of an Optional[str]: "if best_response" with "is not None" instead
TruthyNotNone(o) == ~o.isNone

\* truthiness of an Optional[str]: None and "" are both false
Truthy(o) == ~o.isNone /\ o.val # <<>>

(* ---------------------------- configuration ---------------------------- *)

ConfiguredModels == {"", "m1"}
ModelIds == {"", "m2"}

Valves == [model : ConfiguredModels, k : 0..MaxK, debug : BOOLEAN]

\* Pipeline.__init__: model is '', k and debug come from the environment
InitValves == {v \in Valves : v.model = ""}

(* ---------------------------- conversations ---------------------------- *)

Roles == {"user", "assistant", "system"}

\* the message at position j of a conversation has its own content
Message(r, j) == [role |-> r, content |-> <<"c">> \o DecStr(j)]

\* the conversations handed to pipe: a system turn, if any, opens the conversation
Conversations ==
    UNION {{[j \in 1..n |-> Message(rs[j], j)] :
                rs \in {f \in [1..n -> Roles] : \A j \in 2..n : f[j] # "system"}} :
           n \in 0..MaxLen}

\* looks at the last message only
get_last_user_message_last_only(msgs) ==
    IF msgs # <<>> /\ msgs[Len(msgs)].role = "user" THEN Some(msgs[Len(msgs)]) ELSE None

RECURSIVE get_last_user_message(_)
\* for msg in reversed(messages): if msg['role'] == 'user': return msg; return None
get_last_user_message(msgs) ==
    IF msgs = <<>> THEN None
    ELSE IF msgs[Len(msgs)].role = "user" THEN Some(msgs[Len(msgs)])
    ELSE get_last_user_message(SubSeq(msgs, 1, Len(msgs) - 1))

\* one pop at most: "if" in place of "while"
StripTrailingAssistantOnce(msgs) ==
    IF msgs # <<>> /\ msgs[Len(msgs)].role = "assistant"
    THEN SubSeq(msgs, 1, Len(msgs) - 1) ELSE msgs

RECURSIVE StripTrailingAssistant(_)
\* while m and m[-1]['role'] == 'assistant': m.pop()   (on a copy of the list)
StripTrailingAssistant(msgs) ==
    IF msgs # <<>> /\ msgs[Len(msgs)].role = "assistant"
    THEN StripTrailingAssistant(SubSeq(msgs, 1, Len(msgs) - 1)) ELSE msgs

(* ------------------------------ endpoint ------------------------------- *)

Texts == {<<>>, <<" ", "\t", "", "U+2003">>, <<"a">>, <<"\n", "b", " ">>}

\* what one requests.post can do
Outcomes ==
    {[kind |-> "transport", status |-> 0, body |-> "none", content |-> <<>>]}
    \cup {[kind |-> "http", status |-> 500, body |-> "none", content |-> <<>>]}
    \cup {[kind |-> "http", status |-> 200, body |-> "notjson", content |-> <<>>]}
    \cup {[kind |-> "http", status |-> 200, body |-> "nomessage", content |-> <<>>]}
    \cup {[kind |-> "http", status |-> 200, body |-> "message", content |-> t] : t \in Texts}

\* requests.post raises, or response.json() raises on a 200 answer
Raises(resp) ==
    \/ resp.kind = "transport"
    \/ resp.status = 200 /\ resp.body = "notjson"

\* what the log of the invocation keeps of a reply: that the call raised, that
\* it came back non-200 or without text, or the text it came back with
Observed(resp) ==
    IF resp.kind = "transport" \/ (resp.status = 200 /\ resp.body = "notjson")
    THEN [outcome |-> "raised", content |-> <<>>]
    ELSE IF \/ resp.status # 200
            \/ resp.body # "message"
            \/ \A j \in 1..Len(resp.content) : resp.content[j] \in Whitespace
         THEN [outcome |-> "failed", content |-> <<>>]
         ELSE [outcome |-> "text", content |-> resp.content]

\* data.get("message", {}).get("content", "").strip()
ResponseText(resp) ==
    IF resp.body = "message" THEN Strip(resp.content) ELSE <<>>

(* --------------------------- generation step --------------------------- *)

GenerationRequest(model, msgs) ==
    [kind |-> "generation", model |-> model,
     messages |-> StripTrailingAssistant(msgs), stream |-> FALSE]

\* appends whatever came back with status 200, empty or not
GenAppendUnchecked(resps, resp) ==
    IF resp.status = 200 THEN Append(resps, [content |-> ResponseText(resp)]) ELSE resps

\* lines 143-152 for an answer that raised nothing
GenAppend(resps, resp) ==
    IF resp.status = 200
    THEN IF ResponseText(resp) # <<>>
         THEN Append(resps, [content |-> ResponseText(resp)])
         ELSE resps
    ELSE resps

(* --------------------------- arbitration step -------------------------- *)

Header == <<"I have considered the following possible responses:", "\n">>
Instruction ==
    <<"\n", "Please provide the best possible response to the last user message based on the options above.",
      "\n", "Do not mention the options or this instruction in your final answer.">>

RECURSIVE EnumerateFrom(_, _, _)
\* the loop of line 167, idx counting up from start
EnumerateFrom(text, resps, idx) ==
    IF resps = <<>> THEN text
    ELSE EnumerateFrom(text \o <<"[">> \o DecStr(idx) \o <<"] ">> \o Head(resps).content \o <<"\n">>,
                       Tail(resps), idx + 1)

\* enumerate(responses) without the start index
PossibleResponsesTextFromZero(resps) ==
    EnumerateFrom(Header, resps, 0) \o Instruction

\* lines 166-172
PossibleResponsesText(resps) ==
    EnumerateFrom(Header, resps, 1) \o Instruction

\* lines 160-163 and 175-178
EvaluationMessages(msgs, resps) ==
    Append(StripTrailingAssistant(msgs),
           [role |-> "user", content |-> PossibleResponsesText(resps)])

EvaluationRequest(model, msgs, resps) ==
    [kind |-> "evaluation", model |-> model,
     messages |-> EvaluationMessages(msgs, resps), stream |-> FALSE]

\* lines 196-203 for an answer that raised nothing
EvalResult(resp, text) ==
    IF resp.status = 200
    THEN [final |-> Some(ResponseText(resp)), trace |-> Some(text)]
    ELSE [final |-> None, trace |-> None]

(* ------------------------------- facade -------------------------------- *)

\* the check of line 59 left out
NoModelNever(v) == FALSE

\* not self.valves.model
NoModel(v) == v.model = ""

\* self.valves.model or model_id
ModelOr(v, mid) == IF v.model # "" THEN v.model ELSE mid

ConfigError(mid) == <<"Please select a model to use with this pipeline ">> \o Str(mid)
NoUserMessage == <<"No user message found.">>
Apology == <<"I'm sorry, but I couldn't generate a response.">>

Returned(text) == [kind |-> "string", text |-> text]
Fault == [kind |-> "fault", text |-> <<>>]
NoResult == [kind |-> "none", text |-> <<>>]

\* lines 105-112
PipeReturn(best, inner, debug) ==
    IF Truthy(best)
    THEN IF debug
         THEN Returned(<<"--- Inner Monologue ---", "\n">> \o inner.val
                       \o <<"\n", "\n", "--- Final Response ---", "\n">> \o best.val)
         ELSE Returned(best.val)
    ELSE Returned(Apology)

(* ------------------------------- actions ------------------------------- *)

Init ==
    /\ valves \in InitValves
    /\ pc = "idle"
    /\ model_id = ""
    /\ messages = <<>>
    /\ conversation_history = <<>>
    /\ gen_model = ""
    /\ k = 0
    /\ i = 0
    /\ responses = <<>>
    /\ requests = <<>>
    /\ inflight = {}
    /\ replies = <<>>
    /\ best_response = None
    /\ inner_monologue = None
    /\ result = NoResult

\* the host assigns self.valves (a public attribute that pipe reads again at
\* lines 59, 76-81, 91-96 and 106); it can do so before an invocation and at
\* every point of a running one.  At "done" pipe has returned and reads nothing
\* more: an assignment there is the same assignment made after Return.
UpdateValves ==
    /\ pc # "done"
    /\ \E v \in Valves : v # valves /\ valves' = v
    /\ UNCHANGED <<pc, model_id, messages, conversation_history, gen_model, k, i, responses,
                   requests, inflight, replies, best_response, inner_monologue, result>>

\* pipe, lines 56-73: the two checks
PipeCall ==
    /\ pc = "idle"
    /\ \E mid \in ModelIds, msgs \in Conversations :
        /\ model_id' = mid
        /\ messages' = msgs
        /\ IF NoModel(valves)
           THEN /\ result' = Returned(ConfigError(mid))
                /\ pc' = "done"
                /\ UNCHANGED conversation_history
           ELSE /\ conversation_history' = msgs
                /\ IF get_last_user_message(msgs).isNone
                   THEN result' = Returned(NoUserMessage) /\ pc' = "done"
                   ELSE result' = NoResult /\ pc' = "checked"
    /\ UNCHANGED <<valves, gen_model, k, i, responses, requests, inflight, replies,
                   best_response, inner_monologue>>

\* pipe, lines 75-82: the arguments of get_top_k_responses are read from the valves
GenCall ==
    /\ pc = "checked"
    /\ gen_model' = ModelOr(valves, model_id)
    /\ k' = valves.k
    /\ pc' = "gen"
    /\ UNCHANGED <<valves, model_id, messages, conversation_history, i, responses,
                   requests, inflight, replies, best_response, inner_monologue, result>>

\* get_top_k_responses, lines 124-142: one iteration up to requests.post
GenSend ==
    /\ pc = "gen"
    /\ i < k
    /\ LET req == GenerationRequest(gen_model, conversation_history)
       IN /\ requests' = Append(requests, req)
          /\ inflight' = inflight \cup {req}
    /\ pc' = "gen_wait"
    /\ UNCHANGED <<valves, model_id, messages, conversation_history, gen_model, k, i,
                   responses, replies, best_response, inner_monologue, result>>

\* get_top_k_responses, lines 142-152: requests.post returns or raises
GenRecv ==
    /\ pc = "gen_wait"
    /\ \E resp \in Outcomes :
        /\ replies' = Append(replies, Observed(resp))
        /\ inflight' = {}
        /\ IF Raises(resp)
           THEN /\ result' = Fault
                /\ pc' = "done"
                /\ UNCHANGED <<i, responses>>
           ELSE /\ responses' = GenAppend(responses, resp)
                /\ i' = i + 1
                /\ pc' = "gen"
                /\ UNCHANGED result
    /\ UNCHANGED <<valves, model_id, messages, conversation_history, gen_model, k,
                   requests, best_response, inner_monologue>>

\* the loop is over; pipe's lines 90-97 read the valves again, then
\* select_best_response_with_model, lines 159-195, up to requests.post
EvalSend ==
    /\ pc = "gen"
    /\ i >= k
    /\ LET req == EvaluationRequest(ModelOr(valves, model_id), conversation_history, responses)
       IN /\ requests' = Append(requests, req)
          /\ inflight' = inflight \cup {req}
    /\ pc' = "eval_wait"
    /\ UNCHANGED <<valves, model_id, messages, conversation_history, gen_model, k, i,
                   responses, replies, best_response, inner_monologue, result>>

\* lines 195-203, then pipe's lines 99-112, which read valves.debug again
EvalRecv ==
    /\ pc = "eval_wait"
    /\ \E resp \in Outcomes :
        /\ replies' = Append(replies, Observed(resp))
        /\ inflight' = {}
        /\ IF Raises(resp)
           THEN /\ result' = Fault
                /\ UNCHANGED <<best_response, inner_monologue>>
           ELSE LET r == EvalResult(resp, PossibleResponsesText(responses))
                IN /\ best_response' = r.final
                   /\ inner_monologue' = r.trace
                   /\ result' = PipeReturn(r.final, r.trace, valves.debug)
    /\ pc' = "done"
    /\ UNCHANGED <<valves, model_id, messages, conversation_history, gen_model, k, i,
                   responses, requests>>

\* the caller has the result; nothing but the valves outlives the invocation
Return ==
    /\ pc = "done"
    /\ pc' = "idle"
    /\ model_id' = ""
    /\ messages' = <<>>
    /\ conversation_history' = <<>>
    /\ gen_model' = ""
    /\ k' = 0
    /\ i' = 0
    /\ responses' = <<>>
    /\ requests' = <<>>
    /\ inflight' = {}
    /\ replies' = <<>>
    /\ best_response' = None
    /\ inner_monologue' = None
    /\ result' = NoResult
    /\ UNCHANGED valves

Next ==
    \/ UpdateValves
    \/ PipeCall
    \/ GenCall
    \/ GenSend
    \/ GenRecv
    \/ EvalSend
    \/ EvalRecv
    \/ Return

Spec == Init /\ [][Next]_vars

(* ------------------------ vocabulary of the claims --------------------- *)

HasUser(msgs) == \E j \in 1..Len(msgs) : msgs[j].role = "user"

\* the invocation got past the model check and the user-message check
PassedChecks ==
    \/ pc \in {"checked", "gen", "gen_wait", "eval_wait"}
    \/ /\ pc = "done"
       /\ result # Returned(ConfigError(model_id))
       /\ result # Returned(NoUserMessage)

\* get_top_k_responses has been entered
InGeneration ==
    \/ pc \in {"gen", "gen_wait", "eval_wait"}
    \/ pc = "done" /\ requests # <<>>

\* the input conversation without its maximal run of trailing assistant turns
KeptLength(msgs) ==
    IF \E j \in 1..Len(msgs) : msgs[j].role # "assistant"
    THEN CHOOSE j \in 1..Len(msgs) :
            /\ msgs[j].role # "assistant"
            /\ \A l \in (j + 1)..Len(msgs) : msgs[l].role = "assistant"
    ELSE 0
WithoutTrailingAssistants(msgs) == SubSeq(msgs, 1, KeptLength(msgs))

\* a call that came back with a non-200 status or with no text once trimmed
FailedOrEmpty(r) == r.outcome = "failed"
GoodText(r) == r.outcome = "text"

\* the candidates that the replies rs must have left, in request order
KeptTexts(rs) ==
    LET ok == SelectSeq(rs, GoodText)
    IN [j \in 1..Len(ok) |-> [content |-> Strip(ok[j].content)]]

GenerationRequests == SelectSeq(requests, LAMBDA r : r.kind = "generation")
EvaluationRequests == SelectSeq(requests, LAMBDA r : r.kind = "evaluation")

\* the replies of the generation calls made so far
GenerationReplies ==
    SubSeq(replies, 1, IF Len(replies) < Len(GenerationRequests)
                       THEN Len(replies) ELSE Len(GenerationRequests))

\* the arbitration call has been made and has come back
ArbitrationAnswered ==
    /\ pc = "done"
    /\ requests # <<>>
    /\ requests[Len(requests)].kind = "evaluation"
    /\ Len(replies) = Len(requests)
ArbitrationReply == replies[Len(replies)]

RECURSIVE OptionLines(_, _)
\* "[1] text\n" ... "[n] text\n" for the first n candidates of cands
OptionLines(cands, n) ==
    IF n = 0 THEN <<>>
    ELSE OptionLines(cands, n - 1)
         \o <<"[">> \o DecStr(n) \o <<"] ">> \o cands[n].content \o <<"\n">>
ArbitrationText(cands) == Header \o OptionLines(cands, Len(cands)) \o Instruction

(* -------------------------------- claims ------------------------------- *)

\* C1: whatever each outbound call does (200 with text, 200 with an empty or
\* malformed body, a non-200 status, a transport failure), pipe ends by
\* returning a plain string, and a failing generation call does not keep the
\* remaining generation calls and the arbitration call from being made.
C1_AlwaysReturnsString ==
    pc = "done" =>
        /\ result.kind = "string"
        /\ PassedChecks => Len(GenerationRequests) = k
                           /\ Len(EvaluationRequests) = 1

\* C2: when every generation call came back non-200 or with empty text (or
\* k = 0), pipe returns the apology string whatever the endpoint answers to
\* the arbitration call.
C2_EmptySetApology ==
    (/\ ArbitrationAnswered
     /\ ArbitrationReply.outcome # "raised"
     /\ \A j \in 1..Len(GenerationReplies) : FailedOrEmpty(GenerationReplies[j]))
    => result = Returned(Apology)

\* C3: with no configured model and no override, pipe returns the
\* configuration-error string having made no outbound call, changes nothing
\* of the pipeline's state, and the pipeline is afterwards as it was before
\* the call.
C3_ConfigRejection ==
    [][/\ (pc = "idle" /\ pc' # "idle" /\ valves.model = "" /\ model_id' = "")
          => /\ pc' = "done"
             /\ result' = Returned(<<"Please select a model to use with this pipeline ">>)
             /\ requests' = <<>> /\ inflight' = {} /\ replies' = <<>>
             /\ valves' = valves
       /\ (pc = "done" /\ pc' # "done")
          => /\ pc' = "idle" /\ valves' = valves
             /\ requests' = <<>> /\ inflight' = {} /\ responses' = <<>> /\ i' = 0
             /\ result' = NoResult]_vars
C3_Witness ==
    /\ pc = "done" /\ valves.model = "" /\ model_id = ""
    /\ HasUser(messages)
    /\ result = Returned(ConfigError(""))
    /\ requests = <<>>

\* C4: pipe rejects with the configuration-error message only when no model
\* identifier is supplied either: with a non-empty model_id override (and a
\* user message) it does not reject and goes on to issue its requests.
C4_OverrideAccepted ==
    (pc = "done" /\ model_id # "")
    => /\ result # Returned(ConfigError(model_id))
       /\ HasUser(messages) => requests # <<>>

\* C5: when the arbitration call comes back non-200 or with empty text, pipe
\* returns the apology string whatever the candidates are; the arbitration
\* request is the only one of its kind and the last request of the invocation.
C5_ArbitrationFailureApology ==
    /\ \A j \in 1..Len(requests) : requests[j].kind = "evaluation" => j = Len(requests)
    /\ (ArbitrationAnswered /\ FailedOrEmpty(ArbitrationReply))
       => /\ result = Returned(Apology)
          /\ Len(EvaluationRequests) = 1
C5_Witness ==
    /\ ArbitrationAnswered
    /\ FailedOrEmpty(ArbitrationReply)
    /\ best_response = Some(<<>>)
    /\ Len(responses) = 2
    /\ result = Returned(Apology)

\* C6: get_top_k_responses makes one request per iteration, k in all, whatever
\* fails, and its result is the trimmed texts of the iterations that came
\* back 200 with non-blank text, in request order: k - |F| candidates.
C6_KeptCandidates ==
    /\ pc = "gen"
       => /\ Len(requests) = i /\ Len(replies) = i /\ i <= k
          /\ responses = KeptTexts(replies)
    /\ (pc = "eval_wait" \/ (pc = "gen" /\ i = k))
       => /\ Len(GenerationRequests) = k
          /\ \A j \in 1..k : FailedOrEmpty(replies[j]) \/ GoodText(replies[j])
          /\ responses = KeptTexts(SubSeq(replies, 1, k))
          /\ Len(responses) = k - Cardinality({j \in 1..k : FailedOrEmpty(replies[j])})
          /\ Len(responses) \in 0..k
C6_Witness ==
    /\ pc = "eval_wait" /\ k = 2
    /\ FailedOrEmpty(replies[1])
    /\ replies[2].content = <<"\n", "b", " ">>

\* C8: no outbound request ends on an assistant turn; a generation request
\* carries the input conversation without its trailing assistant turns, the
\* earlier turns in place; stripping it again changes nothing; the caller's
\* list is left as it was.
C8_NoTrailingAssistant ==
    /\ [](\A j \in 1..Len(requests) :
            LET m == requests[j].messages
            IN /\ m # <<>> /\ m[Len(m)].role # "assistant"
               /\ requests[j].kind = "generation"
                  => /\ m = WithoutTrailingAssistants(messages)
                     /\ StripTrailingAssistant(m) = m
                     /\ WithoutTrailingAssistants(m) = m)
    /\ [][(pc # "idle" /\ pc' # "idle") => messages' = messages]_vars
C8_Witness ==
    /\ requests # <<>> /\ requests[1].kind = "generation"
    /\ Len(messages) = 3
    /\ messages[2].role = "assistant" /\ messages[3].role = "assistant"
    /\ requests[1].messages = <<messages[1]>>

\* C9: the arbitration request carries the stripped conversation followed by
\* one new user turn whose text lists candidate i as "[i] text", i = 1..n in
\* generation order, each once; on a successful arbitration call the trace
\* returned is that turn's text.
C9_ArbitrationMessage ==
    \A j \in 1..Len(requests) :
        requests[j].kind = "evaluation"
        => LET m == requests[j].messages
               turn == m[Len(m)]
           IN /\ Len(m) = KeptLength(messages) + 1
              /\ SubSeq(m, 1, Len(m) - 1) = WithoutTrailingAssistants(messages)
              /\ turn.role = "user"
              /\ turn.content = ArbitrationText(responses)
              /\ Len(SelectSeq(turn.content, LAMBDA t : t = "[")) = Len(responses)
              /\ (ArbitrationAnswered /\ GoodText(ArbitrationReply))
                 => /\ inner_monologue = Some(turn.content)
                    /\ best_response = Some(Strip(ArbitrationReply.content))
C9_Witness ==
    /\ ArbitrationAnswered
    /\ ArbitrationReply.content = <<"a">>
    /\ responses = <<[content |-> <<"a">>], [content |-> <<"b">>]>>
    /\ inner_monologue = Some(Header \o <<"[", "1", "] ", "a", "\n", "[", "2", "] ", "b", "\n">>
                              \o Instruction)
    /\ result = Returned(<<"--- Inner Monologue ---", "\n">> \o inner_monologue.val
                         \o <<"\n", "\n", "--- Final Response ---", "\n", "a">>)

\* C10: at most one outbound call is in flight, a request is issued only when
\* every earlier one has returned, and an invocation that passed both checks
\* ends having issued k generation requests and then one arbitration request.
C10_SequentialCalls ==
    /\ Cardinality(inflight) <= 1
    /\ Len(requests) - Len(replies) = Cardinality(inflight)
    /\ (pc = "done" /\ PassedChecks)
       => /\ Len(requests) = k + 1
          /\ \A j \in 1..k : requests[j].kind = "generation"
          /\ requests[k + 1].kind = "evaluation"

====
